---- MODULE Spec2Model ----
(***************************************************************************)
(* Chip-8 virtual machine of src/main.py: the core (class Chip8), the      *)
(* disassembler (disassemble) and the host entry points that touch the     *)
(* core (App.load_rom, App.key_press, App.key_release).                    *)
(*                                                                         *)
(* A Python exception raised inside an operation is recorded in err; the   *)
(* assignments made before the raise are kept, as in Python.               *)
(***************************************************************************)
EXTENDS Integers, Sequences, FiniteSets, TLC

VARIABLES
    \* The fields of the Chip8 instance (empty while none is constructed).
    memory, V, I, pc, stack, delay_timer, sound_timer, display, keys,
    chip8,        \* whether a Chip8 has been constructed (App.chip8 is not None)
    rom,          \* the bytes read from the ROM file by the last load_rom
    err,          \* the exception that ended the last Chip8 operation, or "none"
    messagebox,   \* the error dialog the last App.load_rom showed, or ""
    hist,         \* the cycles run on the Chip8, most recent last
    asm_opcode,   \* the argument given to disassemble
    asm           \* << >> before the call of disassemble, then <<its value>>

vars == <<memory, V, I, pc, stack, delay_timer, sound_timer, display, keys,
          chip8, rom, err, messagebox, hist, asm_opcode, asm>>

chip8vars == <<memory, V, I, pc, stack, delay_timer, sound_timer, display, keys>>

(***************************************************************************)
(* Program constants.                                                      *)
(***************************************************************************)
MEMORY_SIZE == 4096

DISPLAY_WIDTH == 64

DISPLAY_HEIGHT == 32

NUM_KEYS == 16

NUM_REGS == 16

(***************************************************************************)
(* Bounds of the model.                                                    *)
(***************************************************************************)
\* Cycles are explored while the call stack holds fewer than MaxStack entries
\* (the Python list itself is unbounded).
MaxStack == 17

(***************************************************************************)
(* Python's integer operators on non-negative integers.                    *)
(***************************************************************************)
RECURSIVE BitAnd(_, _)
BitAnd(a, b) ==
    IF a = 0 \/ b = 0 THEN 0
    ELSE (a % 2) * (b % 2) + 2 * BitAnd(a \div 2, b \div 2)

RECURSIVE BitOr(_, _)
BitOr(a, b) ==
    IF a = 0 THEN b
    ELSE IF b = 0 THEN a
    ELSE (IF a % 2 = 1 \/ b % 2 = 1 THEN 1 ELSE 0) + 2 * BitOr(a \div 2, b \div 2)

RECURSIVE BitXor(_, _)
BitXor(a, b) ==
    IF a = 0 THEN b
    ELSE IF b = 0 THEN a
    ELSE (IF a % 2 # b % 2 THEN 1 ELSE 0) + 2 * BitXor(a \div 2, b \div 2)

\* a >> k
ShiftR(a, k) == a \div (2 ^ k)

\* a << k
ShiftL(a, k) == a * (2 ^ k)

\* x & 0xFF where x may be negative (Python's & on a negative int is the
\* two's complement residue).
Mask8(a) == a % 256

(***************************************************************************)
(* Chip8.__init__                                                          *)
(***************************************************************************)
fontset ==
    << \hF0, \h90, \h90, \h90, \hF0,
       \h20, \h60, \h20, \h20, \h70,
       \hF0, \h10, \hF0, \h80, \hF0,
       \hF0, \h10, \hF0, \h10, \hF0,
       \h90, \h90, \hF0, \h10, \h10,
       \hF0, \h80, \hF0, \h10, \hF0,
       \hF0, \h80, \hF0, \h90, \hF0,
       \hF0, \h10, \h20, \h40, \h40,
       \hF0, \h90, \hF0, \h90, \hF0,
       \hF0, \h90, \hF0, \h10, \hF0,
       \hF0, \h90, \hF0, \h90, \h90,
       \hE0, \h90, \hE0, \h90, \hE0,
       \hF0, \h80, \h80, \h80, \hF0,
       \hE0, \h90, \h90, \h90, \hE0,
       \hF0, \h80, \hF0, \h80, \hF0,
       \hF0, \h80, \hF0, \h80, \h80 >>

InitMemory ==
    [a \in 0 .. MEMORY_SIZE - 1 |-> IF a < Len(fontset) THEN fontset[a + 1] ELSE 0]

BlankDisplay ==
    [r \in 0 .. DISPLAY_HEIGHT - 1 |-> [c \in 0 .. DISPLAY_WIDTH - 1 |-> 0]]

\* The fields of a freshly constructed Chip8, with err = "none".
NewChip8 ==
    [ memory      |-> InitMemory,
      V           |-> [r \in 0 .. NUM_REGS - 1 |-> 0],
      I           |-> 0,
      pc          |-> \h200,
      stack       |-> << >>,
      delay_timer |-> 0,
      sound_timer |-> 0,
      display     |-> BlankDisplay,
      keys        |-> [k \in 0 .. NUM_KEYS - 1 |-> 0],
      err         |-> "none" ]

\* The field values that stand for "no Chip8 constructed".
NoChip8 ==
    [ memory      |-> << >>,
      V           |-> << >>,
      I           |-> 0,
      pc          |-> 0,
      stack       |-> << >>,
      delay_timer |-> 0,
      sound_timer |-> 0,
      display     |-> << >>,
      keys        |-> << >>,
      err         |-> "none" ]

\* The current Chip8 as a record.
Machine ==
    [ memory      |-> memory,
      V           |-> V,
      I           |-> I,
      pc          |-> pc,
      stack       |-> stack,
      delay_timer |-> delay_timer,
      sound_timer |-> sound_timer,
      display     |-> display,
      keys        |-> keys,
      err         |-> err ]

\* A Python list index i of a list of length len is valid (no negative index
\* arises: every index is a sum of non-negative values).
ValidIndex(i, len) == i >= 0 /\ i < len

(***************************************************************************)
(* Chip8.cycle                                                             *)
(***************************************************************************)
\* raise IndexError: the state reached so far is kept.
Raise(s) == [s EXCEPT !.err = "IndexError"]

\* opcode = (self.memory[self.pc] << 8) | self.memory[self.pc + 1]
Fetch(mem, addr) == BitOr(ShiftL(mem[addr], 8), mem[addr + 1])

\* Whether the fetch at addr indexes inside memory.
CanFetch(addr) ==
    ValidIndex(addr, MEMORY_SIZE) /\ ValidIndex(addr + 1, MEMORY_SIZE)

\* Decode
Nnn(opcode) == BitAnd(opcode, \h0FFF)

N(opcode) == BitAnd(opcode, \h000F)

X(opcode) == ShiftR(BitAnd(opcode, \h0F00), 8)

Y(opcode) == ShiftR(BitAnd(opcode, \h00F0), 4)

Kk(opcode) == BitAnd(opcode, \h00FF)

\* opcode & 0xF000
Group(opcode) == BitAnd(opcode, \hF000)

\* Mutant of OpCls: the framebuffer is left as it is.
OpClsKeep(s) == s

\* 00E0 CLS
OpCls(s) == [s EXCEPT !.display = BlankDisplay]

\* Mutant of OpRet: a pop of the empty stack yields 0 instead of raising.
OpRetZero(s) ==
    IF Len(s.stack) = 0 THEN [s EXCEPT !.pc = 0]
    ELSE [s EXCEPT !.pc = s.stack[Len(s.stack)],
                   !.stack = SubSeq(s.stack, 1, Len(s.stack) - 1)]

\* 00EE RET: self.pc = self.stack.pop()
OpRet(s) ==
    IF Len(s.stack) = 0 THEN Raise(s)
    ELSE [s EXCEPT !.pc = s.stack[Len(s.stack)],
                   !.stack = SubSeq(s.stack, 1, Len(s.stack) - 1)]

\* 1nnn JP addr
OpJp(s, nnn) == [s EXCEPT !.pc = nnn]

\* Mutant of OpCall: the address of the CALL itself is pushed.
OpCallSelf(s, nnn) == [s EXCEPT !.stack = Append(s.stack, s.pc - 2), !.pc = nnn]

\* 2nnn CALL addr: s.pc is already the address after the CALL.
OpCall(s, nnn) == [s EXCEPT !.stack = Append(s.stack, s.pc), !.pc = nnn]

\* Mutant of SkipIf: the skip is taken when the condition is false.
SkipIfNot(s, cond) == IF ~cond THEN [s EXCEPT !.pc = s.pc + 2] ELSE s

\* if cond: self.pc += 2
SkipIf(s, cond) == IF cond THEN [s EXCEPT !.pc = s.pc + 2] ELSE s

\* Mutant of OpAddByte: the framebuffer is cleared as well.
OpAddByteCls(s, x, kk) ==
    [s EXCEPT !.V[x] = BitAnd(s.V[x] + kk, \hFF), !.display = BlankDisplay]

\* 7xkk ADD Vx, byte
OpAddByte(s, x, kk) == [s EXCEPT !.V[x] = BitAnd(s.V[x] + kk, \hFF)]

\* Mutant of OpAdd: the sum is stored without truncation to 8 bits.
OpAddNoMask(s, x, y) ==
    LET result == s.V[x] + s.V[y]
        s1 == [s EXCEPT !.V[15] = IF result > \hFF THEN 1 ELSE 0]
    IN  [s1 EXCEPT !.V[x] = result]

\* 8xy4 ADD Vx, Vy
OpAdd(s, x, y) ==
    LET result == s.V[x] + s.V[y]
        s1 == [s EXCEPT !.V[15] = IF result > \hFF THEN 1 ELSE 0]
    IN  [s1 EXCEPT !.V[x] = BitAnd(result, \hFF)]

\* 8xy5 SUB Vx, Vy
OpSub(s, x, y) ==
    LET s1 == [s EXCEPT !.V[15] = IF s.V[x] > s.V[y] THEN 1 ELSE 0]
    IN  [s1 EXCEPT !.V[x] = Mask8(s1.V[x] - s1.V[y])]

\* 8xy6 SHR Vx
OpShr(s, x) ==
    LET s1 == [s EXCEPT !.V[15] = BitAnd(s.V[x], 1)]
    IN  [s1 EXCEPT !.V[x] = ShiftR(s1.V[x], 1)]

\* 8xy7 SUBN Vx, Vy
OpSubn(s, x, y) ==
    LET s1 == [s EXCEPT !.V[15] = IF s.V[y] > s.V[x] THEN 1 ELSE 0]
    IN  [s1 EXCEPT !.V[x] = Mask8(s1.V[y] - s1.V[x])]

\* 8xyE SHL Vx
OpShl(s, x) ==
    LET s1 == [s EXCEPT !.V[15] = ShiftR(BitAnd(s.V[x], \h80), 7)]
    IN  [s1 EXCEPT !.V[x] = BitAnd(ShiftL(s1.V[x], 1), \hFF)]

\* The 8xyn group; an n with no branch falls through the inner chain.
Op8(s, x, y, n) ==
    IF n = 0 THEN [s EXCEPT !.V[x] = s.V[y]]
    ELSE IF n = 1 THEN [s EXCEPT !.V[x] = BitOr(s.V[x], s.V[y])]
    ELSE IF n = 2 THEN [s EXCEPT !.V[x] = BitAnd(s.V[x], s.V[y])]
    ELSE IF n = 3 THEN [s EXCEPT !.V[x] = BitXor(s.V[x], s.V[y])]
    ELSE IF n = 4 THEN OpAdd(s, x, y)
    ELSE IF n = 5 THEN OpSub(s, x, y)
    ELSE IF n = 6 THEN OpShr(s, x)
    ELSE IF n = 7 THEN OpSubn(s, x, y)
    ELSE IF n = 14 THEN OpShl(s, x)
    ELSE s

\* px = (vx + col) % 64
PixelX(vx, col) == (vx + col) % DISPLAY_WIDTH

\* py = (vy + row) % 32
PixelY(vy, row) == (vy + row) % DISPLAY_HEIGHT

\* Mutant of DrawPixel: VF is overwritten by each drawn pixel's old value.
DrawPixelLast(s, px, py) ==
    [s EXCEPT !.V[15] = s.display[py][px],
              !.display[py][px] = BitXor(s.display[py][px], 1)]

\* One sprite pixel: the collision test, then the XOR.
DrawPixel(s, px, py) ==
    LET s1 == IF s.display[py][px] = 1 THEN [s EXCEPT !.V[15] = 1] ELSE s
    IN  [s1 EXCEPT !.display[py][px] = BitXor(s1.display[py][px], 1)]

\* for col in range(8)
RECURSIVE DrawCols(_, _, _, _, _)
DrawCols(s, sprite, vx, py, col) ==
    IF col >= 8 THEN s
    ELSE DrawCols(IF BitAnd(sprite, ShiftR(\h80, col)) # 0
                  THEN DrawPixel(s, PixelX(vx, col), py)
                  ELSE s,
                  sprite, vx, py, col + 1)

\* for row in range(n)
RECURSIVE DrawRows(_, _, _, _, _)
DrawRows(s, vx, vy, n, row) ==
    IF row >= n THEN s
    ELSE IF ~ValidIndex(s.I + row, MEMORY_SIZE) THEN Raise(s)
    ELSE DrawRows(DrawCols(s, s.memory[s.I + row], vx, PixelY(vy, row), 0),
                  vx, vy, n, row + 1)

\* Dxyn DRW Vx, Vy, nibble
OpDrw(s, x, y, n) ==
    LET vx == s.V[x]
        vy == s.V[y]
    IN  DrawRows([s EXCEPT !.V[15] = 0], vx, vy, n, 0)

\* self.keys[self.V[x]] with its index check.
OpSkp(s, x, want) ==
    IF ~ValidIndex(s.V[x], NUM_KEYS) THEN Raise(s)
    ELSE SkipIf(s, s.keys[s.V[x]] = want)

\* The Exkk group; a kk with no branch falls through.
OpE(s, x, kk) ==
    IF kk = \h9E THEN OpSkp(s, x, 1)
    ELSE IF kk = \hA1 THEN OpSkp(s, x, 0)
    ELSE s

\* Mutant of ScanKeys: the scan does not stop at the first pressed key.
RECURSIVE ScanKeysNoBreak(_, _)
ScanKeysNoBreak(k, i) ==
    IF i >= NUM_KEYS THEN -1
    ELSE LET later == ScanKeysNoBreak(k, i + 1)
         IN  IF later # -1 THEN later ELSE IF k[i] # 0 THEN i ELSE -1

\* for i in range(16): if self.keys[i]: pressed = i; break   (-1 is None)
RECURSIVE ScanKeys(_, _)
ScanKeys(k, i) ==
    IF i >= NUM_KEYS THEN -1
    ELSE IF k[i] # 0 THEN i
    ELSE ScanKeys(k, i + 1)

\* Mutant of OpWaitKey: PC is rewound also when a key was found.
OpWaitKeyStay(s, x) ==
    LET pressed == ScanKeys(s.keys, 0)
    IN  IF pressed = -1 THEN [s EXCEPT !.pc = s.pc - 2]
        ELSE [s EXCEPT !.V[x] = pressed, !.pc = s.pc - 2]

\* Fx0A LD Vx, K
OpWaitKey(s, x) ==
    LET pressed == ScanKeys(s.keys, 0)
    IN  IF pressed = -1 THEN [s EXCEPT !.pc = s.pc - 2]
        ELSE [s EXCEPT !.V[x] = pressed]

\* self.memory[addr] = value
Store(s, addr, value) ==
    IF ~ValidIndex(addr, MEMORY_SIZE) THEN Raise(s)
    ELSE [s EXCEPT !.memory[addr] = value]

\* Fx33 LD B, Vx
OpBcd(s, x) ==
    LET value == s.V[x]
        s1 == Store(s, s.I, value \div 100)
        s2 == IF s1.err # "none" THEN s1 ELSE Store(s1, s.I + 1, (value \div 10) % 10)
    IN  IF s2.err # "none" THEN s2 ELSE Store(s2, s.I + 2, value % 10)

\* Fx55: for i in range(x + 1): self.memory[self.I + i] = self.V[i]
RECURSIVE StoreRegs(_, _, _)
StoreRegs(s, x, i) ==
    IF i >= x + 1 THEN s
    ELSE LET s1 == Store(s, s.I + i, s.V[i])
         IN  IF s1.err # "none" THEN s1 ELSE StoreRegs(s1, x, i + 1)

\* Fx65: for i in range(x + 1): self.V[i] = self.memory[self.I + i]
RECURSIVE LoadRegs(_, _, _)
LoadRegs(s, x, i) ==
    IF i >= x + 1 THEN s
    ELSE IF ~ValidIndex(s.I + i, MEMORY_SIZE) THEN Raise(s)
    ELSE LoadRegs([s EXCEPT !.V[i] = s.memory[s.I + i]], x, i + 1)

\* The Fxkk group; a kk with no branch falls through.
OpF(s, x, kk) ==
    IF kk = \h07 THEN [s EXCEPT !.V[x] = s.delay_timer]
    ELSE IF kk = \h0A THEN OpWaitKey(s, x)
    ELSE IF kk = \h15 THEN [s EXCEPT !.delay_timer = s.V[x]]
    ELSE IF kk = \h18 THEN [s EXCEPT !.sound_timer = s.V[x]]
    ELSE IF kk = \h1E THEN [s EXCEPT !.I = BitAnd(s.I + s.V[x], \hFFF)]
    ELSE IF kk = \h29 THEN [s EXCEPT !.I = s.V[x] * 5]
    ELSE IF kk = \h33 THEN OpBcd(s, x)
    ELSE IF kk = \h55 THEN StoreRegs(s, x, 0)
    ELSE IF kk = \h65 THEN LoadRegs(s, x, 0)
    ELSE s

\* The if/elif chain of cycle(); s.pc has been advanced. rnd is the value
\* random.randint(0, 255) returns.
Execute(s, opcode, rnd) ==
    LET nnn == Nnn(opcode)
        n   == N(opcode)
        x   == X(opcode)
        y   == Y(opcode)
        kk  == Kk(opcode)
        g   == Group(opcode)
    IN  IF opcode = \h00E0 THEN OpCls(s)
        ELSE IF opcode = \h00EE THEN OpRet(s)
        ELSE IF g = \h0000 THEN s
        ELSE IF g = \h1000 THEN OpJp(s, nnn)
        ELSE IF g = \h2000 THEN OpCall(s, nnn)
        ELSE IF g = \h3000 THEN SkipIf(s, s.V[x] = kk)
        ELSE IF g = \h4000 THEN SkipIf(s, s.V[x] # kk)
        ELSE IF g = \h5000 THEN SkipIf(s, n = 0 /\ s.V[x] = s.V[y])
        ELSE IF g = \h6000 THEN [s EXCEPT !.V[x] = kk]
        ELSE IF g = \h7000 THEN OpAddByte(s, x, kk)
        ELSE IF g = \h8000 THEN Op8(s, x, y, n)
        ELSE IF g = \h9000 THEN SkipIf(s, n = 0 /\ s.V[x] # s.V[y])
        ELSE IF g = \hA000 THEN [s EXCEPT !.I = nnn]
        ELSE IF g = \hB000 THEN OpJp(s, nnn + s.V[0])
        ELSE IF g = \hC000 THEN [s EXCEPT !.V[x] = BitAnd(rnd, kk)]
        ELSE IF g = \hD000 THEN OpDrw(s, x, y, n)
        ELSE IF g = \hE000 THEN OpE(s, x, kk)
        ELSE IF g = \hF000 THEN OpF(s, x, kk)
        ELSE [s EXCEPT !.err = "UnknownOpcode"]

\* One cycle() call on s.
CycleOf(s, rnd) ==
    IF ~CanFetch(s.pc) THEN Raise(s)
    ELSE Execute([s EXCEPT !.pc = s.pc + 2], Fetch(s.memory, s.pc), rnd)


(***************************************************************************)
(* ROM images the host loads: byte sequences, built from opcode lists.     *)
(***************************************************************************)
\* Big-endian bytes of a list of opcodes.
Bytes(ops) ==
    [i \in 1 .. 2 * Len(ops) |->
        IF i % 2 = 1 THEN ops[(i + 1) \div 2] \div 256 ELSE ops[i \div 2] % 256]

\* The opcode with nibbles g, x, y, n.
Op(g, x, y, n) == g * 4096 + x * 256 + y * 16 + n

\* The opcode with high nibble g, register x and byte kk.
OpK(g, x, kk) == g * 4096 + x * 256 + kk

\* Nested subroutines: main calls A, A calls B, both return, main halts.
CallRom ==
    Bytes(<< \h2206, \h1202, \h0000, \h220A, \h00EE, \h00EE >>)

\* Recursion 15 deep, then a CALL/RET pair at every depth while unwinding,
\* and at last a RET on the empty stack.
DeepRom == Bytes(<< \h7001, \h3010, \h2200, \h220A, \h00EE, \h00EE >>)

\* Unbounded recursion.
RecRom == Bytes(<< \h2200 >>)

\* Vx := a; Vy := b; 8xyn; halt.
AluRom(x, y, a, b, n) ==
    Bytes(<< OpK(6, x, a), OpK(6, y, b), Op(8, x, y, n), \h1206 >>)

\* Vx := a; Vy := b; I := font; two overlapping draws; halt.
DrawRom(x, y, a, b, n) ==
    Bytes(<< OpK(6, x, a), OpK(6, y, b), \hA000, Op(13, x, y, n),
             OpK(7, x, 1), Op(13, x, y, n), \h120C >>)

\* The glyph "0" at (0, 0), drawn twice.
GlyphRom == Bytes(<< \hA000, \hD015, \hD015, \h1206 >>)

\* Wait for a key into V3, skip tests on it, then on key index 16.
KeyRom ==
    Bytes(<< \hF30A, \hE39E, \h0000, \hE3A1, \h0000, \h6310, \hE39E, \h1200 >>)

\* Opcodes outside the instruction table, then halt.
OddRom ==
    Bytes(<< \h6107, \h5011, \h9012, \h8018, \h801F, \hE000, \hE19F, \hF000,
             \hF1FF, \h0123, \h1214 >>)

\* Timers, index arithmetic, BCD, register store/load, random, computed jump.
MiscRom ==
    Bytes(<< \h60FE, \hF015, \hF018, \hF107, \hA300, \hF033, \hF155, \h6200,
             \hF265, \hF11E, \hF029, \hC30F, \h00E0, \h6004, \hB21A, \h0000,
             \h121E >>)

\* LD V0,5; ADD V0,1; CLS, then whatever follows in memory.
ScenarioRom == Bytes(<< \h6005, \h7001, \h00E0 >>)

\* JP 0xFFF: the next fetch is at the last byte of memory.
JumpEndRom == Bytes(<< \h1FFF >>)

\* V0 := 0xFF; JP V0, 0xFFF: PC becomes 0xFFF + 0xFF.
JumpV0Rom == Bytes(<< \h60FF, \hBFFF >>)

\* I := 0xFFE; BCD of V0 at I, I + 1, I + 2.
IndexEndRom == Bytes(<< \hAFFE, \hF033, \h1204 >>)

\* V0 := 0xFF; BCD of V0 and a register store with I = 0 (the font area); halt.
FontRom == Bytes(<< \h60FF, \hF033, \hF155, \h1206 >>)

\* The glyph "0" drawn at (0, 0), then CLS; halt.
ClsRom == Bytes(<< \hA000, \hD015, \h00E0, \h1206 >>)

\* V0 := 3; DT := V0; ST := V0; poll (0x206): V0 := DT; SE V0, 0; JP poll;
\* halt (0x20C).
PollRom ==
    Bytes(<< \h6003, \hF015, \hF018, \hF007, \h3000, \h1206, \h120C >>)

\* V1 := 5, then every register/byte skip with its condition true and false.
SkipRom ==
    Bytes(<< \h6105, \h3105, \h0000, \h3106, \h4105, \h4106, \h0000, \h5010,
             \h5110, \h0000, \h9110, \h9010, \h0000, \h121A >>)

\* V3 := 16; SKNP V3.
KeyEdgeRom == Bytes(<< \h6310, \hE3A1, \h1204 >>)

\* CALL 0x204; RET at 0x204 back to 0x202; RET at 0x202 on the empty stack.
RetRom == Bytes(<< \h2204, \h00EE, \h00EE >>)

\* A ROM of len bytes: JP 0x200 followed by filler.
FillerRom(len) ==
    [i \in 1 .. len |-> IF i = 1 THEN \h12 ELSE IF i = 2 THEN \h00 ELSE (i * 7) % 256]

\* Register pairs <<x, y>>: distinct, equal, and VF as either or both.
RegPairs == { <<0, 1>>, <<1, 1>>, <<15, 0>>, <<0, 15>>, <<15, 15>> }

OperandBytes == {1, 200, 255}

AluOps == {0, 1, 2, 3, 4, 5, 6, 7, 14}

AluRoms ==
    { AluRom(r[1], r[2], a, b, n) :
        r \in RegPairs, a \in OperandBytes, b \in OperandBytes, n \in AluOps }

DrawRoms ==
    { DrawRom(r[1], r[2], a, b, n) :
        r \in RegPairs, a \in {0, 62, 200}, b \in {0, 30}, n \in {0, 5, 15} }

\* The largest ROM that fits: MEMORY_SIZE - 0x200 bytes.
MaxRomLen == MEMORY_SIZE - \h200

BigRoms == { FillerRom(MaxRomLen), FillerRom(MaxRomLen + 1) }

\* ROM files the user can pick in App.load_rom.
Roms ==
    { CallRom, DeepRom, RecRom, GlyphRom, KeyRom, OddRom, MiscRom, ScenarioRom,
      JumpEndRom, JumpV0Rom, IndexEndRom, FontRom, ClsRom, PollRom, SkipRom,
      KeyEdgeRom, RetRom }
        \cup AluRoms \cup DrawRoms \cup BigRoms

\* ROM files of programs that wait: for a timer, for a key.
WaitRoms == { PollRom, KeyRom }

\* ROM files passed to Chip8.load_rom directly.
DirectRoms == { CallRom, << >> } \cup BigRoms

\* Keys the host presses and releases.
KeyInputs == {2, 9}

\* Values random.randint(0, 255) returns.
RandomBytes == 0 .. 255

(***************************************************************************)
(* History of the cycles run on the current Chip8: for each of the last    *)
(* HistLen cycles, the opcode fetched (-1: the fetch raised) and the state *)
(* the cycle started from.                                                 *)
(***************************************************************************)
HistLen == 2

Remember(h, r) ==
    IF Len(h) < HistLen THEN Append(h, r) ELSE Append(Tail(h), r)

Snapshot(opcode) ==
    [ op          |-> opcode,
      pc          |-> pc,
      V           |-> V,
      I           |-> I,
      stack       |-> stack,
      delay_timer |-> delay_timer,
      sound_timer |-> sound_timer ]

(***************************************************************************)
(* Actions.                                                                *)
(***************************************************************************)
\* The Chip8 fields become those of record t.
Becomes(t) ==
    /\ memory' = t.memory
    /\ V' = t.V
    /\ I' = t.I
    /\ pc' = t.pc
    /\ stack' = t.stack
    /\ delay_timer' = t.delay_timer
    /\ sound_timer' = t.sound_timer
    /\ display' = t.display
    /\ keys' = t.keys
    /\ err' = t.err

\* The Chip8 fields are those of record t.
Becomes0(t) ==
    /\ memory = t.memory
    /\ V = t.V
    /\ I = t.I
    /\ pc = t.pc
    /\ stack = t.stack
    /\ delay_timer = t.delay_timer
    /\ sound_timer = t.sound_timer
    /\ display = t.display
    /\ keys = t.keys
    /\ err = t.err

\* Chip8.load_rom on s: the bytes written before the loop ends or raises.
LoadInto(s, bytes) ==
    [s EXCEPT
        !.memory = [a \in 0 .. MEMORY_SIZE - 1 |->
                        IF a >= \h200 /\ a - \h200 < Len(bytes)
                        THEN bytes[a - \h200 + 1] ELSE s.memory[a]],
        !.err = IF \h200 + Len(bytes) > MEMORY_SIZE THEN "IndexError" ELSE s.err]

\* App.__init__: no Chip8 yet.
Init ==
    /\ Becomes0(NoChip8)
    /\ chip8 = FALSE
    /\ rom = << >>
    /\ messagebox = ""
    /\ hist = << >>
    /\ asm_opcode = 0
    /\ asm = << >>

\* App.load_rom with the file bytes chosen in the dialog. A session loads one
\* ROM: a later load builds a fresh Chip8 and reaches the same states.
AppLoadRom(bytes) ==
    /\ ~chip8
    /\ rom' = bytes
    /\ IF Len(bytes) > MEMORY_SIZE - \h200
       THEN /\ messagebox' = "ROM file is too large for Chip-8 memory!"
            /\ UNCHANGED <<chip8vars, chip8, err, hist>>
       ELSE /\ Becomes(LoadInto(NewChip8, bytes))
            /\ chip8' = TRUE
            /\ messagebox' = ""
            /\ UNCHANGED hist
    /\ UNCHANGED <<asm_opcode, asm>>

\* A host that constructs a Chip8 and calls Chip8.load_rom itself.
Chip8LoadRom(bytes) ==
    /\ ~chip8
    /\ rom' = bytes
    /\ Becomes(LoadInto(NewChip8, bytes))
    /\ chip8' = TRUE
    /\ UNCHANGED <<messagebox, hist, asm_opcode, asm>>

\* One Chip8.cycle() call by the host (App.update_loop: if self.chip8), until
\* a call raises.
Cycle ==
    /\ chip8
    /\ err = "none"
    /\ Len(stack) < MaxStack
    /\ LET opcode == IF CanFetch(pc) THEN Fetch(memory, pc) ELSE -1
       IN  /\ \E rnd \in (IF opcode # -1 /\ Group(opcode) = \hC000
                          THEN RandomBytes ELSE {0}) :
                  \E t \in {CycleOf(Machine, rnd)} : Becomes(t)
           /\ hist' = Remember(hist, Snapshot(opcode))
    /\ UNCHANGED <<chip8, rom, messagebox, asm_opcode, asm>>

\* App.key_press for a key mapped to Chip-8 key k (if self.chip8).
KeyPress(k) ==
    /\ chip8
    /\ keys' = [keys EXCEPT ![k] = 1]
    /\ UNCHANGED <<memory, V, I, pc, stack, delay_timer, sound_timer, display,
                   chip8, rom, err, messagebox, hist, asm_opcode, asm>>

\* App.key_release for a key mapped to Chip-8 key k (if self.chip8).
KeyRelease(k) ==
    /\ chip8
    /\ keys' = [keys EXCEPT ![k] = 0]
    /\ UNCHANGED <<memory, V, I, pc, stack, delay_timer, sound_timer, display,
                   chip8, rom, err, messagebox, hist, asm_opcode, asm>>

Next ==
    \/ \E bytes \in Roms : AppLoadRom(bytes)
    \/ \E bytes \in DirectRoms : Chip8LoadRom(bytes)
    \/ Cycle
    \/ \E k \in KeyInputs : KeyPress(k)
    \/ \E k \in KeyInputs : KeyRelease(k)

Spec == Init /\ [][Next]_vars

\* The running system on a program that waits: App.update_loop reschedules
\* itself on every tick (self.root.after(16, self.update_loop)) and calls
\* cycle() on each, so a cycle that can run is eventually run.
NextFair ==
    \/ \E bytes \in WaitRoms : AppLoadRom(bytes)
    \/ Cycle
    \/ \E k \in KeyInputs : KeyPress(k)
    \/ \E k \in KeyInputs : KeyRelease(k)

SpecFair == Init /\ [][NextFair]_vars /\ WF_vars(Cycle)


(***************************************************************************)
(* disassemble                                                             *)
(***************************************************************************)
HexDigits ==
    << "0", "1", "2", "3", "4", "5", "6", "7",
       "8", "9", "A", "B", "C", "D", "E", "F" >>

\* format(v, "X")
RECURSIVE HexUpper(_)
HexUpper(v) ==
    IF v < 16 THEN HexDigits[v + 1]
    ELSE HexUpper(v \div 16) \o HexDigits[(v % 16) + 1]

\* Zero fill on the left up to width characters.
RECURSIVE ZeroFill(_, _)
ZeroFill(str, width) ==
    IF Len(str) >= width THEN str ELSE ZeroFill("0" \o str, width)

\* format(v, "0<width>X")
Hex(v, width) == ZeroFill(HexUpper(v), width)

\* f"V{x:X}"
Reg(x) == "V" \o HexUpper(x)

\* f"<mnemonic> V{x:X}, V{y:X}"
RegReg(mnemonic, x, y) == mnemonic \o " " \o Reg(x) \o ", " \o Reg(y)

\* f"<mnemonic> V{x:X}, {kk:02X}"
RegByte(mnemonic, x, kk) == mnemonic \o " " \o Reg(x) \o ", " \o Hex(kk, 2)

\* The value of a branch that returns nothing (None): control goes on to the
\* final return.
FallThrough == ""

\* The 8xyn branch.
Dis8(x, y, n) ==
    IF n = 0 THEN RegReg("LD", x, y)
    ELSE IF n = 1 THEN RegReg("OR", x, y)
    ELSE IF n = 2 THEN RegReg("AND", x, y)
    ELSE IF n = 3 THEN RegReg("XOR", x, y)
    ELSE IF n = 4 THEN RegReg("ADD", x, y)
    ELSE IF n = 5 THEN RegReg("SUB", x, y)
    ELSE IF n = 6 THEN "SHR " \o Reg(x)
    ELSE IF n = 7 THEN RegReg("SUBN", x, y)
    ELSE IF n = 14 THEN "SHL " \o Reg(x)
    ELSE FallThrough

\* The Exkk branch.
DisE(x, kk) ==
    IF kk = \h9E THEN "SKP " \o Reg(x)
    ELSE IF kk = \hA1 THEN "SKNP " \o Reg(x)
    ELSE FallThrough

\* The Fxkk branch.
DisF(x, kk) ==
    IF kk = \h07 THEN "LD " \o Reg(x) \o ", DT"
    ELSE IF kk = \h0A THEN "LD " \o Reg(x) \o ", K"
    ELSE IF kk = \h15 THEN "LD DT, " \o Reg(x)
    ELSE IF kk = \h18 THEN "LD ST, " \o Reg(x)
    ELSE IF kk = \h1E THEN "ADD I, " \o Reg(x)
    ELSE IF kk = \h29 THEN "LD F, " \o Reg(x)
    ELSE IF kk = \h33 THEN "LD B, " \o Reg(x)
    ELSE IF kk = \h55 THEN "LD [I], V0-" \o Reg(x)
    ELSE IF kk = \h65 THEN "LD V0-" \o Reg(x) \o ", [I]"
    ELSE FallThrough

\* Mutant of Unknown: the opcode is formatted without zero fill.
UnknownUnpadded(opc) == "UNKNOWN " \o HexUpper(opc)

\* return f"UNKNOWN {opcode:04X}"
Unknown(opc) == "UNKNOWN " \o Hex(opc, 4)

\* The if/elif chain of disassemble, FallThrough where no branch returns.
DisChain(opc) ==
    LET nnn == Nnn(opc)
        n   == N(opc)
        x   == X(opc)
        y   == Y(opc)
        kk  == Kk(opc)
        g   == Group(opc)
    IN  IF opc = \h00E0 THEN "CLS"
        ELSE IF opc = \h00EE THEN "RET"
        ELSE IF g = \h1000 THEN "JP " \o Hex(nnn, 3)
        ELSE IF g = \h2000 THEN "CALL " \o Hex(nnn, 3)
        ELSE IF g = \h3000 THEN RegByte("SE", x, kk)
        ELSE IF g = \h4000 THEN RegByte("SNE", x, kk)
        ELSE IF g = \h5000 /\ n = 0 THEN RegReg("SE", x, y)
        ELSE IF g = \h6000 THEN RegByte("LD", x, kk)
        ELSE IF g = \h7000 THEN RegByte("ADD", x, kk)
        ELSE IF g = \h8000 THEN Dis8(x, y, n)
        ELSE IF g = \h9000 /\ n = 0 THEN RegReg("SNE", x, y)
        ELSE IF g = \hA000 THEN "LD I, " \o Hex(nnn, 3)
        ELSE IF g = \hB000 THEN "JP V0, " \o Hex(nnn, 3)
        ELSE IF g = \hC000 THEN RegByte("RND", x, kk)
        ELSE IF g = \hD000 THEN "DRW " \o Reg(x) \o ", " \o Reg(y) \o ", " \o HexUpper(n)
        ELSE IF g = \hE000 THEN DisE(x, kk)
        ELSE IF g = \hF000 THEN DisF(x, kk)
        ELSE FallThrough

disassemble(opc) ==
    LET r == DisChain(opc)
    IN  IF r = FallThrough THEN Unknown(opc) ELSE r

\* The opcodes given to disassemble: every 16-bit value.
Opcodes == 0 .. 65535

\* No Chip8 is needed to call disassemble.
InitDis ==
    /\ Becomes0(NoChip8)
    /\ chip8 = FALSE
    /\ rom = << >>
    /\ messagebox = ""
    /\ hist = << >>
    /\ asm_opcode \in Opcodes
    /\ asm = << >>

\* The call disassemble(asm_opcode).
Disassemble ==
    /\ asm = << >>
    /\ asm' = << disassemble(asm_opcode) >>
    /\ UNCHANGED <<chip8vars, chip8, rom, err, messagebox, hist, asm_opcode>>

NextDis == Disassemble

SpecDis == InitDis /\ [][NextDis]_vars


(***************************************************************************)
(* Properties.                                                             *)
(***************************************************************************)
\* A cycle has been run on the current Chip8.
Ran == Len(hist) > 0

\* The record of the most recent cycle.
Last == hist[Len(hist)]

\* The record of the cycle before the most recent one.
Prev == hist[Len(hist) - 1]

\* Opcode fields, by place value.
HighNibble(opc) == opc \div 4096

XOf(opc) == (opc \div 256) % 16

YOf(opc) == (opc \div 16) % 16

NOf(opc) == opc % 16

KkOf(opc) == opc % 256

NnnOf(opc) == opc % 4096

IsCall(opc) == HighNibble(opc) = 2

IsAlu(opc, n) == HighNibble(opc) = 8 /\ NOf(opc) = n

IsDrw(opc) == HighNibble(opc) = 13

IsWaitKey(opc) == HighNibble(opc) = 15 /\ KkOf(opc) = 10

\* The opcode the next cycle executes, -1 when the fetch would raise.
NextOp == IF chip8 /\ CanFetch(pc) THEN Fetch(memory, pc) ELSE -1

\* The stack without its top entry.
Front(st) == SubSeq(st, 1, Len(st) - 1)

\* C1: CALL followed by RET is a round trip. When a 2nnn is executed at p with
\* fewer than 16 stack entries and 00EE is stored at nnn, then after the two
\* cycles PC = p + 2 and the stack is the one before the CALL. More generally
\* every CALL pushes the address after itself and every RET on a non-empty
\* stack pops the most recently pushed address into PC (LIFO order).
C1_CallRetRoundTrip ==
    /\ ( /\ Len(hist) = 2
         /\ IsCall(hist[1].op)
         /\ Len(hist[1].stack) < 16
         /\ CanFetch(NnnOf(hist[1].op))
         /\ Fetch(memory, NnnOf(hist[1].op)) = \h00EE )
       => ( /\ err = "none"
            /\ hist[2].op = \h00EE
            /\ pc = hist[1].pc + 2
            /\ stack = hist[1].stack )
    /\ (Ran /\ IsCall(Last.op) /\ Len(Last.stack) < 16)
       => ( /\ err = "none"
            /\ stack = Append(Last.stack, Last.pc + 2)
            /\ pc = NnnOf(Last.op) )
    /\ (Ran /\ Last.op = \h00EE /\ Last.stack # << >>)
       => ( /\ err = "none"
            /\ pc = Last.stack[Len(Last.stack)]
            /\ stack = Front(Last.stack) )

\* C1 witness: a nested CALL (stack not empty) immediately followed by its RET.
C1_Witness ==
    /\ Len(hist) = 2
    /\ IsCall(hist[1].op)
    /\ Len(hist[1].stack) >= 1
    /\ hist[2].op = \h00EE
    /\ hist[2].pc = NnnOf(hist[1].op)
    /\ pc = hist[1].pc + 2
    /\ err = "none"

\* C2: after a cycle executing 8xy4, 8xy5 or 8xy7, for every x and y (x = F and
\* y = F included), VF is the flag of the pre-cycle register values: carry of
\* V[x] + V[y]; V[x] > V[y]; V[y] > V[x].
C2_FlagOfPreCycleValues ==
    (Ran /\ Last.op >= 0)
    => LET vx == Last.V[XOf(Last.op)]
           vy == Last.V[YOf(Last.op)]
       IN  /\ IsAlu(Last.op, 4) => V[15] = (IF vx + vy > 255 THEN 1 ELSE 0)
           /\ IsAlu(Last.op, 5) => V[15] = (IF vx > vy THEN 1 ELSE 0)
           /\ IsAlu(Last.op, 7) => V[15] = (IF vy > vx THEN 1 ELSE 0)

\* C3: after a cycle executing 8xy4, 8xy5 or 8xy7, for every x and y (y = F
\* included), V[x] is the 8-bit truncation of the result of the pre-cycle
\* values: V[x] + V[y]; V[x] - V[y]; V[y] - V[x].
C3_ResultOfPreCycleValues ==
    (Ran /\ Last.op >= 0)
    => LET x  == XOf(Last.op)
           vx == Last.V[XOf(Last.op)]
           vy == Last.V[YOf(Last.op)]
       IN  /\ IsAlu(Last.op, 4) => V[x] = (vx + vy) % 256
           /\ IsAlu(Last.op, 5) => V[x] = (vx - vy) % 256
           /\ IsAlu(Last.op, 7) => V[x] = (vy - vx) % 256

\* C4: the shifts work on V[x] only and VF takes the bit shifted out, for every
\* x and y: after 8xy6 VF is bit 0 of the pre-cycle V[x] and V[x] is that value
\* shifted right by one; after 8xyE VF is bit 7 and V[x] is the value shifted
\* left by one, truncated to 8 bits; V[y] is unchanged (y other than x and F).
C4_ShiftOnVx ==
    (Ran /\ Last.op >= 0)
    => LET x  == XOf(Last.op)
           y  == YOf(Last.op)
           vx == Last.V[XOf(Last.op)]
       IN  /\ IsAlu(Last.op, 6) => (V[15] = vx % 2 /\ V[x] = vx \div 2)
           /\ IsAlu(Last.op, 14) => (V[15] = vx \div 128 /\ V[x] = (vx * 2) % 256)
           /\ ((IsAlu(Last.op, 6) \/ IsAlu(Last.op, 14)) /\ y # x /\ y # 15)
              => V[y] = Last.V[y]

\* Bit (7 - col) of a sprite byte.
SpriteBit(byte, col) == (byte \div (2 ^ (7 - col))) % 2

\* The cells <<c, r>> a Dxyn covers with a set sprite bit: b(c, r) = 1.
SpriteCells(mem, i, vx, vy, n) ==
    { << (vx + rc[2]) % 64, (vy + rc[1]) % 32 >> :
        rc \in { q \in (0 .. n - 1) \X (0 .. 7) : SpriteBit(mem[i + q[1]], q[2]) = 1 } }

\* The glyph "0": rows F0 90 90 90 F0.
Glyph0 ==
    << << 1, 1, 1, 1, 0, 0, 0, 0 >>,
       << 1, 0, 0, 1, 0, 0, 0, 0 >>,
       << 1, 0, 0, 1, 0, 0, 0, 0 >>,
       << 1, 0, 0, 1, 0, 0, 0, 0 >>,
       << 1, 1, 1, 1, 0, 0, 0, 0 >> >>

\* C5: a cycle executing Dxyn with I + n - 1 <= 4095 XORs every framebuffer cell
\* (c, r) with b(c, r), where b is 1 exactly on the wrapped cells of the set
\* sprite bits, taken from the pre-cycle V[x], V[y]; VF becomes 1 iff a cell with
\* b = 1 was set before, else 0. Drawing the font glyph "0" at (0, 0) on an empty
\* framebuffer leaves the glyph in the top-left 8x5 region and VF = 0.
C5_SpriteBlit ==
    [][ (chip8 /\ err = "none" /\ IsDrw(NextOp) /\ I + NOf(NextOp) - 1 <= 4095 /\ Cycle)
        => LET opc   == NextOp
               cells == SpriteCells(memory, I, V[XOf(opc)], V[YOf(opc)], NOf(opc))
           IN  /\ err' = "none"
               /\ display' =
                    [r \in 0 .. 31 |-> [c \in 0 .. 63 |->
                        IF <<c, r>> \in cells THEN 1 - display[r][c] ELSE display[r][c]]]
               /\ V'[15] = (IF \E cell \in cells : display[cell[2]][cell[1]] = 1
                            THEN 1 ELSE 0)
               /\ ( /\ opc = \hD015 /\ I = 0 /\ V[0] = 0 /\ V[1] = 0
                    /\ display = BlankDisplay
                    /\ \A a \in 0 .. 4 : memory[a] = << \hF0, \h90, \h90, \h90, \hF0 >>[a + 1] )
                  => ( /\ V'[15] = 0
                       /\ \A r \in 0 .. 31 : \A c \in 0 .. 63 :
                            display'[r][c] = (IF r < 5 /\ c < 8 THEN Glyph0[r + 1][c + 1] ELSE 0) )
      ]_vars

\* C5 witness: a Dxyn that wrapped on both axes and hit a set pixel.
C5_Witness ==
    /\ Ran
    /\ err = "none"
    /\ IsDrw(Last.op)
    /\ NOf(Last.op) = 5
    /\ Last.V[XOf(Last.op)] = 63
    /\ Last.V[YOf(Last.op)] = 30
    /\ V[15] = 1
    /\ display[0][2] = 1

\* C6: Chip8.load_rom, direct or through App.load_rom: a ROM of at most 3584
\* bytes is written verbatim at 0x200.. and no other address changes; a ROM of
\* 3585 bytes or more is rejected (OversizeRom) before any mutation, memory
\* being what it was before the load.
C6_LoadRomChecked ==
    (hist = << >> /\ (chip8 \/ messagebox # ""))
    => IF Len(rom) <= 3584
       THEN /\ chip8
            /\ err = "none"
            /\ \A a \in 0 .. 4095 :
                 memory[a] = (IF a >= 512 /\ a < 512 + Len(rom)
                              THEN rom[a - 511] ELSE InitMemory[a])
       ELSE /\ (err = "OversizeRom" \/ messagebox # "")
            /\ memory = (IF chip8 THEN InitMemory ELSE NoChip8.memory)

\* C7: a cycle executing Fx0A with all 16 keys 0 leaves PC and every register,
\* I, memory, stack, timer and framebuffer as they were; with a key pressed it
\* sets V[x] to the lowest pressed index and leaves PC at pre-cycle PC + 2.
C7_KeyWait ==
    [][ (chip8 /\ err = "none" /\ IsWaitKey(NextOp) /\ Cycle)
        => IF \A k \in 0 .. 15 : keys[k] = 0
           THEN UNCHANGED <<chip8vars, err>>
           ELSE LET low == CHOOSE i \in 0 .. 15 :
                              keys[i] = 1 /\ \A j \in 0 .. i - 1 : keys[j] = 0
                IN  /\ V' = [V EXCEPT ![XOf(NextOp)] = low]
                    /\ pc' = pc + 2
                    /\ err' = "none"
                    /\ UNCHANGED <<memory, I, stack, delay_timer, sound_timer,
                                   display, keys>>
      ]_vars

\* C7 witness: an Fx0A that spun with no key pressed, then completed with keys
\* 2 and 9 both pressed and stored 2.
C7_Witness ==
    /\ Len(hist) = 2
    /\ IsWaitKey(hist[1].op)
    /\ IsWaitKey(hist[2].op)
    /\ hist[2].pc = hist[1].pc
    /\ pc = hist[2].pc + 2
    /\ keys[2] = 1
    /\ keys[9] = 1
    /\ V[XOf(hist[2].op)] = 2

\* The opcodes that match no row of the instruction table.
Unmatched(opc) ==
    \/ HighNibble(opc) \in {5, 9} /\ NOf(opc) # 0
    \/ HighNibble(opc) = 8 /\ NOf(opc) \in {8, 9, 10, 11, 12, 13, 15}
    \/ HighNibble(opc) = 14 /\ KkOf(opc) \notin {\h9E, \hA1}
    \/ HighNibble(opc) = 15
         /\ KkOf(opc) \notin {\h07, \h0A, \h15, \h18, \h1E, \h29, \h33, \h55, \h65}

\* C8: cycle() fails with UnknownOpcode, without any effect, for every opcode
\* that matches no row of the instruction table.
C8_UnknownOpcodeFails ==
    (Ran /\ Last.op >= 0 /\ Unmatched(Last.op))
    => ( /\ err = "UnknownOpcode"
         /\ V = Last.V
         /\ I = Last.I
         /\ stack = Last.stack )

\* The four hex digits of a 16-bit opcode.
Hex4(opc) ==
    HexDigits[((opc \div 4096) % 16) + 1] \o HexDigits[((opc \div 256) % 16) + 1]
        \o HexDigits[((opc \div 16) % 16) + 1] \o HexDigits[(opc % 16) + 1]

\* The opcodes the disassembler's case table does not match.
DisUnmatched(opc) ==
    \/ Unmatched(opc)
    \/ HighNibble(opc) = 0 /\ opc \notin {\h00E0, \h00EE}

\* C9: disassemble is total over the 65536 opcodes: it always returns a string
\* (never None), exactly "UNKNOWN <4 hex digits>" for every opcode the case
\* table does not match and another text for every matched one;
\* disassemble(0x00E0) = "CLS", disassemble(0x1234) = "JP 234",
\* disassemble(0xE000) = "UNKNOWN E000".
C9_DisassembleTotal ==
    asm # << >>
    => /\ asm[1] # FallThrough
       /\ DisUnmatched(asm_opcode) <=> (asm[1] = "UNKNOWN " \o Hex4(asm_opcode))
       /\ asm_opcode = \h00E0 => asm[1] = "CLS"
       /\ asm_opcode = \h1234 => asm[1] = "JP 234"
       /\ asm_opcode = \hE000 => asm[1] = "UNKNOWN E000"
       /\ asm_opcode = \h0123 => asm[1] = "UNKNOWN 0123"

\* C9 witness: the unhandled Ex group opcode 0xE000 was disassembled.
C9_Witness == asm_opcode = \hE000 /\ asm = << "UNKNOWN E000" >>

\* C10: the call stack never holds more than 16 return addresses, and a 2nnn
\* executed with 16 entries fails with StackOverflow without pushing.
C10_StackBounded ==
    /\ Len(stack) <= 16
    /\ (Ran /\ IsCall(Last.op) /\ Len(Last.stack) = 16)
       => (err = "StackOverflow" /\ stack = Last.stack)

\* The addresses, beyond the two of the fetch, that a cycle executing opc
\* indexes memory with: I + row in Dxyn, I .. I + 2 in Fx33, I .. I + x in
\* Fx55 and Fx65.
OperandAddrs(opc) ==
    IF IsDrw(opc) THEN { I + row : row \in 0 .. NOf(opc) - 1 }
    ELSE IF HighNibble(opc) = 15 /\ KkOf(opc) = \h33 THEN { I, I + 1, I + 2 }
    ELSE IF HighNibble(opc) = 15 /\ KkOf(opc) \in {\h55, \h65}
         THEN { I + i : i \in 0 .. XOf(opc) }
    ELSE {}

\* C11: every memory access made by cycle() is in bounds: in every state
\* reached by cycles from the initial state, each address the next cycle reads
\* or writes (PC and PC + 1 at fetch, I + row in Dxyn, I .. I + 2 in Fx33,
\* I .. I + x in Fx55/Fx65) lies in 0 .. 4095.
C11_AccessInBounds ==
    (chip8 /\ err = "none")
    => /\ pc \in 0 .. 4095
       /\ pc + 1 \in 0 .. 4095
       /\ \A a \in OperandAddrs(NextOp) : a \in 0 .. 4095

\* C12: the fontset is never mutated by the engine: after construction and any
\* sequence of cycles, memory[0x000 .. 0x04F] equals the 80-byte font table.
C12_FontsetKept ==
    chip8 => \A a \in 0 .. 79 : memory[a] = fontset[a + 1]

\* C13: width invariant of the machine state: after any sequence of cycles and
\* host key events on a ROM of bytes in 0 .. 255, every V[0 .. F] is in
\* 0 .. 255, every memory byte is in 0 .. 255, both timers are in 0 .. 255, I is
\* in 0 .. 0xFFF and every framebuffer cell is 0 or 1.
C13_Widths ==
    chip8
    => /\ V \in [0 .. 15 -> 0 .. 255]
       /\ memory \in [0 .. 4095 -> 0 .. 255]
       /\ delay_timer \in 0 .. 255
       /\ sound_timer \in 0 .. 255
       /\ I \in 0 .. 4095
       /\ display \in [0 .. 31 -> [0 .. 63 -> {0, 1}]]

\* C13 witness: an 8xy4 whose sum exceeded 255 left the truncated sum in V[x]
\* (x other than F).
C13_Witness ==
    /\ Ran
    /\ Last.op >= 0
    /\ IsAlu(Last.op, 4)
    /\ XOf(Last.op) # 15
    /\ Last.V[XOf(Last.op)] + Last.V[YOf(Last.op)] > 255
    /\ V[XOf(Last.op)] = Last.V[XOf(Last.op)] + Last.V[YOf(Last.op)] - 256

\* The bytes of the scenario: LD V0,5; ADD V0,1; CLS.
ScenarioBytes == << \h60, \h05, \h70, \h01, \h00, \hE0 >>

\* Memory holds the scenario's bytes at 0x200.
ScenarioLoaded ==
    chip8 /\ \A i \in 1 .. 6 : memory[\h200 + i - 1] = ScenarioBytes[i]

\* C14: from a freshly constructed VM with bytes 60 05 70 01 00 E0 at 0x200,
\* after 2 cycles V[0] = 6 and PC = 0x204, and after 3 cycles every framebuffer
\* cell is 0; in general a cycle executing 00E0 in any state sets all 32x64
\* framebuffer cells to 0.
C14_ScenarioAndCls ==
    /\ []( /\ (ScenarioLoaded /\ Len(hist) >= 2 /\ Prev.pc = \h200 /\ Last.pc = \h202)
             => (V[0] = 6 /\ pc = \h204 /\ err = "none")
           /\ (ScenarioLoaded /\ Len(hist) >= 2 /\ Prev.pc = \h202 /\ Last.pc = \h204)
             => ( /\ err = "none"
                  /\ \A r \in 0 .. 31 : \A c \in 0 .. 63 : display[r][c] = 0 ) )
    /\ [][ (chip8 /\ err = "none" /\ NextOp = \h00E0 /\ Cycle)
            => ( /\ err' = "none"
                 /\ \A r \in 0 .. 31 : \A c \in 0 .. 63 : display'[r][c] = 0 )
         ]_vars

\* C14 witness: the scenario's third cycle (the CLS at 0x204) has run.
C14_Witness ==
    /\ ScenarioLoaded
    /\ Len(hist) >= 2
    /\ Prev.pc = \h202
    /\ Prev.op = \h7001
    /\ Prev.V[0] = 5
    /\ Last.pc = \h204
    /\ Last.op = \h00E0
    /\ Last.V[0] = 6
    /\ pc = \h206
    /\ display = BlankDisplay

\* No further cycle is run on the Chip8: a cycle raised, or the call stack is
\* at the depth up to which cycles are explored.
Stopped == err # "none" \/ Len(stack) >= MaxStack

\* Memory holds the polling program of PollRom at 0x200.
PollLoaded ==
    chip8 /\ \A i \in 1 .. Len(PollRom) : memory[\h200 + i - 1] = PollRom[i]

\* C15: timers count down under the host driver: in the running system, once
\* delay_timer or sound_timer holds a value v > 0 it eventually reaches 0, and
\* a program that sets the delay timer and polls it with Fx07 until it reads 0
\* eventually leaves its polling loop.
C15_TimersCountDown ==
    /\ (chip8 /\ delay_timer > 0) ~> (delay_timer = 0 \/ Stopped)
    /\ (chip8 /\ sound_timer > 0) ~> (sound_timer = 0 \/ Stopped)
    /\ (PollLoaded /\ pc = \h206 /\ delay_timer > 0) ~> (pc = \h20C \/ Stopped)

\* The next cycle executes an Fx0A.
AtWait == chip8 /\ err = "none" /\ IsWaitKey(NextOp)

\* Some key is pressed.
KeyHeld == chip8 /\ \E k \in 0 .. 15 : keys[k] = 1

\* The most recent cycle completed an Fx0A: PC is past it.
WaitCompleted == Ran /\ Last.op >= 0 /\ IsWaitKey(Last.op) /\ pc = Last.pc + 2

\* C16: the Fx0A key wait is a cooperative spin across cycles: over any
\* interleaving of cycles and host key events, while PC points at an Fx0A the
\* machine state (all but the keys) stays unchanged as long as each cycle
\* observes all keys released; the first cycle that observes a pressed key
\* completes the instruction with V[x] = the lowest pressed index; and, under
\* fairness, if a key is pressed and still held when the next cycle runs, PC
\* eventually advances past the Fx0A.
C16_KeyWaitSpin ==
    /\ [][ AtWait
            => IF KeyHeld /\ Cycle
               THEN /\ V' = [V EXCEPT ![XOf(NextOp)] =
                                 CHOOSE i \in 0 .. 15 :
                                     keys[i] = 1 /\ \A j \in 0 .. i - 1 : keys[j] = 0]
                    /\ pc' = pc + 2
                    /\ err' = "none"
               ELSE /\ UNCHANGED <<memory, V, I, pc, stack, delay_timer, sound_timer,
                                   display, err>>
                    /\ AtWait'
         ]_vars
    /\ (AtWait /\ KeyHeld) ~> (WaitCompleted \/ ~KeyHeld)

\* C16 witness: an Fx0A that spun with no key pressed, then completed with key
\* 9 alone pressed and stored 9.
C16_Witness ==
    /\ Len(hist) >= 2
    /\ IsWaitKey(Prev.op)
    /\ IsWaitKey(Last.op)
    /\ Last.pc = Prev.pc
    /\ pc = Last.pc + 2
    /\ keys[2] = 0
    /\ keys[9] = 1
    /\ V[XOf(Last.op)] = 9

\* Ex9E or ExA1.
IsKeySkip(opc) == HighNibble(opc) = 14 /\ KkOf(opc) \in {\h9E, \hA1}

\* 3xkk, 4xkk, 5xy0, 9xy0, Ex9E or ExA1.
IsSkip(opc) ==
    \/ HighNibble(opc) \in {3, 4}
    \/ HighNibble(opc) \in {5, 9} /\ NOf(opc) = 0
    \/ IsKeySkip(opc)

\* 1nnn, Bnnn, 2nnn or 00EE.
IsTransfer(opc) == HighNibble(opc) \in {1, 2, 11} \/ opc = \h00EE

\* The condition of skip instruction opc on the current state; a key index
\* V[x] outside 0 .. 15 names no key, pressed or released.
SkipCond(opc) ==
    LET vx == V[XOf(opc)]
        vy == V[YOf(opc)]
    IN  IF HighNibble(opc) = 3 THEN vx = KkOf(opc)
        ELSE IF HighNibble(opc) = 4 THEN vx # KkOf(opc)
        ELSE IF HighNibble(opc) = 5 THEN vx = vy
        ELSE IF HighNibble(opc) = 9 THEN vx # vy
        ELSE IF KkOf(opc) = \h9E THEN vx \in 0 .. 15 /\ keys[vx] = 1
        ELSE vx \in 0 .. 15 /\ keys[vx] = 0

\* C17: PC update rule: every cycle that fetched an opcode first advances PC by
\* 2, so that (a) after an instruction that is not a jump, call, return, skip or
\* key wait PC = PC before + 2; (b) after 3xkk, 4xkk, 5xy0, 9xy0, Ex9E, ExA1
\* PC = PC before + 4 iff the instruction's condition holds on the pre-cycle
\* state and PC before + 2 otherwise, with no other state changed; (c) 2nnn
\* pushes PC before + 2, not the address of the CALL itself.
C17_PcRule ==
    [][ (chip8 /\ err = "none" /\ NextOp # -1 /\ Cycle)
        => /\ (~IsTransfer(NextOp) /\ ~IsSkip(NextOp) /\ ~IsWaitKey(NextOp))
              => pc' = pc + 2
           /\ IsSkip(NextOp)
              => /\ pc' = (IF SkipCond(NextOp) THEN pc + 4 ELSE pc + 2)
                 /\ UNCHANGED <<memory, V, I, stack, delay_timer, sound_timer,
                                display, keys>>
           /\ IsCall(NextOp)
              => (stack' = Append(stack, pc + 2) /\ stack'[Len(stack')] # pc)
      ]_vars

\* C17 witness: an Ex9E found its key pressed and skipped: PC = PC before + 4.
C17_Witness ==
    /\ Ran
    /\ Last.op >= 0
    /\ IsKeySkip(Last.op)
    /\ KkOf(Last.op) = \h9E
    /\ Last.V[XOf(Last.op)] \in 0 .. 15
    /\ keys[Last.V[XOf(Last.op)]] = 1
    /\ pc = Last.pc + 4
    /\ err = "none"

\* C18: the framebuffer is mutated only by CLS and DRW: after a cycle executing
\* any opcode other than 00E0 and Dxyn, and after every host key event, the
\* 32x64 framebuffer equals the framebuffer before the step.
C18_FramebufferFrame ==
    [][ ( \/ chip8 /\ err = "none" /\ NextOp # \h00E0 /\ ~IsDrw(NextOp) /\ Cycle
          \/ \E k \in 0 .. 15 : KeyPress(k) \/ KeyRelease(k) )
        => display' = display
      ]_vars

\* C18 witness: a 7xkk ran right after a draw, on a framebuffer with set
\* pixels, and the pixels are still set.
C18_Witness ==
    /\ Len(hist) >= 2
    /\ IsDrw(Prev.op)
    /\ NOf(Prev.op) = 5
    /\ HighNibble(Last.op) = 7
    /\ err = "none"
    /\ display # BlankDisplay

\* C19: return from an empty stack is an error, not a jump: a cycle executing
\* 00EE with the call stack empty fails (the pop raises), the cycle halts, PC is
\* not assigned any popped value and the stack stays empty.
C19_RetOnEmptyFails ==
    (Ran /\ Last.op = \h00EE /\ Last.stack = << >>)
    => /\ err = "IndexError"
       /\ pc = Last.pc + 2
       /\ stack = << >>
       /\ V = Last.V
       /\ I = Last.I

\* C19 witness: the last RET of an unwinding program emptied the stack and the
\* next RET ran on the empty stack.
C19_Witness ==
    /\ Len(hist) >= 2
    /\ Prev.op = \h00EE
    /\ Len(Prev.stack) = 1
    /\ Last.op = \h00EE
    /\ Last.stack = << >>
    /\ err = "IndexError"
    /\ pc = Last.pc + 2

\* C20: key lookups stay inside the 16 keys: in every reachable state a cycle
\* executing Ex9E or ExA1 indexes the key array with V[x] in 0 .. 15, so no
\* skip-on-key instruction fails because V[x] holds 16 or more.
C20_KeyIndexInRange ==
    /\ (chip8 /\ err = "none" /\ NextOp # -1 /\ IsKeySkip(NextOp))
       => V[XOf(NextOp)] \in 0 .. 15
    /\ (Ran /\ Last.op >= 0 /\ IsKeySkip(Last.op)) => err = "none"


====
